---- MODULE Spec2Model ----
(***************************************************************************)
(* Model of cork/mongodb_backend.py: three dictionary-like tables over a   *)
(* MongoDB database with an optional memcache side cache.                  *)
(*                                                                         *)
(* Spec: one caller makes one call at a time, every action is a whole     *)
(* call.  Keys are strings (login names, role names, registration codes),  *)
(* assert statements are enabled, and one MongoDBBackend is constructed,   *)
(* over an empty database and an empty cache.                              *)
(* SpecFacades: the same calls on the tables of two MongoDBBackend objects *)
(* over two databases.  SpecThreads: two threads whose calls interleave at *)
(* the single store and cache calls.  SpecIter: one caller who enumerates *)
(* a table and calls it between two next().  SpecKeys: cache keys computed for    *)
(* keys of several Python types.  SpecConnect: calls of Memcache.connect.  *)
(*                                                                         *)
(* A document is a function from field names to values; the absent         *)
(* document (Python's None) is the empty function.  A MongoDB collection   *)
(* is a set of documents, each with its own "_id".  The memcache server is *)
(* a function from cache-key strings to a document or None.                *)
(***************************************************************************)
EXTENDS Integers, Sequences, FiniteSets, TLC

\* ---------------------------------------------------------------- bounds

\* ObjectIds the store may generate in one behaviour.
MaxOid == 2

\* Key values, record fields and field values the caller uses.
Keys == {"alice", "bob"}
Fields == {"email"}
Values == {"x", "y"}

\* The tables one application works on: the users table (multi-value) or
\* the roles table (single-value).
Apps == {{"users"}, {"roles"}}

\* Database names a facade may be constructed over.
Dbs == {"cork", "cork_test"}

\* What a caller passes for a memcache host, port and decay time.
HostArgs == {"", "mc1", "mc2"}
PortArgs == {0, 11211, 11212}
DecayArgs == {300, 60}

\* ------------------------------------------------------------ documents

None == <<>>

\* dict.__setitem__ / dict key injection: d[k] = v
dict_set(d, k, v) == (k :> v) @@ d

\* The function d without the field k (d itself if it has no such field).
dict_del(d, k) == [f \in (DOMAIN d) \ {k} |-> d[f]]

\* dict.pop(k): removes the field k; KeyError if the dict has no field k.
dict_pop(d, k) ==
    IF k \in DOMAIN d THEN [status |-> "ok", d |-> dict_del(d, k)]
    ELSE [status |-> "KeyError", d |-> d]

\* -------------------------------------------------------------- tables

\* The three collections MongoDBBackend.__init__ creates.
TableNames == {"users", "pending_registrations", "roles"}

key_name(name) ==
    CASE name = "users" -> "login"
      [] name = "pending_registrations" -> "pending_registration"
      [] name = "roles" -> "role"

\* TRUE for a MongoMultiValueTable, FALSE for a MongoSingleValueTable
is_multi(name) == name \in {"users", "pending_registrations"}

\* MongoTable.__init__: self._mc_prefix
mc_prefix(name) == name \o key_name(name)

Handles == [db : Dbs, name : TableNames]

\* ----------------------------------------------------------- Memcache

\* Memcache.key: '{0}{1}'.format(prefix, key)
Memcache_key(k, prefix) == prefix \o k

CacheKeys == {Memcache_key(k, mc_prefix(n)) : k \in Keys, n \in TableNames}

\* Memcache.get / set / delete on the server contents m
Memcache_get(m, k, prefix) == m[Memcache_key(k, prefix)]

Memcache_set(m, k, value, prefix) == [m EXCEPT ![Memcache_key(k, prefix)] = value]

\* Mutant of Memcache_delete: the prefix is left out of the key.
Memcache_delete_noprefix(m, k, prefix) ==
    [ck \in DOMAIN m |-> IF ck = Memcache_key(k, "") THEN None ELSE m[ck]]

Memcache_delete(m, k, prefix) == [m EXCEPT ![Memcache_key(k, prefix)] = None]

\* One call of _MC.get / _MC.set / _MC.delete, as it reaches the memcache
\* client: the method and the cache key.
mc_call(op, k, prefix) == <<op, Memcache_key(k, prefix)>>

\* ------------------------------------------------- pymongo collection

\* Collection.find_one({kn: kv})
find_one(c, kn, kv) ==
    IF \E d \in c : kn \in DOMAIN d /\ d[kn] = kv
    THEN CHOOSE d \in c : kn \in DOMAIN d /\ d[kn] = kv
    ELSE None

\* Mutant of coll_remove: the filter names a field no document has.
coll_remove_wrongfield(c, kn, kv) == {d \in c : ~("key" \in DOMAIN d /\ d["key"] = kv)}

\* Collection.remove({kn: kv}): every matching document is deleted
coll_remove(c, kn, kv) == {d \in c : ~(kn \in DOMAIN d /\ d[kn] = kv)}

\* Collection.count()
coll_count(c) == Cardinality(c)

\* Collection.find(): a cursor over every document of the collection, each
\* once.  The store defines no order, so every order is a possible cursor.
find(c) ==
    {r \in [1..Cardinality(c) -> c] : \A d \in c : \E i \in 1..Cardinality(c) : r[i] = d}

\* Mutant of coll_upsert: insert() in place of update(upsert=True).
coll_upsert_insert(c, kn, kv, data, oid) ==
    [c |-> c \cup {dict_set(data, "_id", oid)}, err |-> FALSE, fresh |-> TRUE]

\* Mutant of coll_upsert: a {"$set": data} update, which keeps the fields of
\* the matching document that data does not name.
coll_upsert_merge(c, kn, kv, data, oid) ==
    IF \E d \in c : kn \in DOMAIN d /\ d[kn] = kv
    THEN LET e == CHOOSE d \in c : kn \in DOMAIN d /\ d[kn] = kv
         IN  [c |-> (c \ {e}) \cup {dict_del(data, "_id") @@ e},
              err |-> FALSE, fresh |-> FALSE]
    ELSE [c |-> c \cup {dict_set(data, "_id", oid)}, err |-> FALSE, fresh |-> TRUE]

\* Collection.update({kn: kv}, data, upsert=True) with a replacement
\* document.  A matching document is replaced and keeps its _id; the server
\* refuses a replacement that carries another _id.  With no match the
\* document is inserted, under its own _id if it carries one (refused if
\* that _id is taken) and under the fresh ObjectId oid otherwise.
\* Result: the collection, whether the server refused, whether oid was used.
coll_upsert(c, kn, kv, data, oid) ==
    LET e == find_one(c, kn, kv) IN
    IF e # None
    THEN IF "_id" \in DOMAIN data /\ data["_id"] # e["_id"]
         THEN [c |-> c, err |-> TRUE, fresh |-> FALSE]
         ELSE [c |-> (c \ {e}) \cup {dict_set(data, "_id", e["_id"])},
               err |-> FALSE, fresh |-> FALSE]
    ELSE IF "_id" \in DOMAIN data
         THEN IF \E d \in c : d["_id"] = data["_id"]
              THEN [c |-> c, err |-> TRUE, fresh |-> FALSE]
              ELSE [c |-> c \cup {data}, err |-> FALSE, fresh |-> FALSE]
         ELSE [c |-> c \cup {dict_set(data, "_id", oid)},
               err |-> FALSE, fresh |-> TRUE]

\* ---------------------------------------------------------------- state

VARIABLES
    facades,       \* databases a MongoDBBackend was constructed over
    app,           \* names of the tables the calling application works on
    mc_cache,      \* _MC.cache is set (memcache connected)
    memcached,     \* the memcache server: cache key -> document or None
    coll,          \* the database: table handle -> set of documents
    next_oid,      \* the next ObjectId the store generates
    view,          \* the MongoMutableDict the caller holds, or None
    last,          \* the last call made and its outcome
    MC,            \* the fields of _MC: host, port, decay, cache (the client)
    running        \* the call each concurrent caller is in, or None

vars == <<facades, app, mc_cache, memcached, coll, next_oid, view, last, MC, running>>

\* ------------------------------------------------------- Python values

\* A Python value passed to or returned by a call: a dict, a scalar (str),
\* a bool or None.
PyDict(d) == [type |-> "dict", d |-> d, s |-> "", b |-> FALSE]
PyScalar(s) == [type |-> "str", d |-> None, s |-> s, b |-> FALSE]
PyBool(b) == [type |-> "bool", d |-> None, s |-> "", b |-> b]
PyNone == [type |-> "NoneType", d |-> None, s |-> "", b |-> FALSE]
PyInt(n) == [type |-> "int", n |-> n]
PyTuple(t) == [type |-> "tuple", t |-> t]
\* What a generator yields, in order.
PyList(l) == [type |-> "list", l |-> l]

\* isinstance(data, dict)
isinstance_dict(data) == data.type = "dict"

\* The truth value Python gives v in `if v`: None, '', 0, False and {} are
\* false.
truthy(v) ==
    CASE v.type = "NoneType" -> FALSE
      [] v.type = "str" -> v.s # ""
      [] v.type = "int" -> v.n # 0
      [] v.type = "bool" -> v.b
      [] v.type = "dict" -> v.d # <<>>

\* '{0}'.format(v) for None, a str and an int
format(v) ==
    CASE v.type = "NoneType" -> "None"
      [] v.type = "str" -> v.s
      [] v.type = "int" -> ToString(v.n)

\* Memcache.key for a key and a prefix of any of these types:
\* prefix = prefix or ''; '{0}{1}'.format(prefix, key)
Memcache_key_format(key, prefix) ==
    format(IF truthy(prefix) THEN prefix ELSE PyScalar("")) \o format(key)

\* ------------------------------------------------- Memcache, configuration

\* decay=300, the default of Memcache.__init__ and of memcache_decay
DefaultDecay == 300

\* memcache.Client(['{0}:{1}'.format(host, port)], debug=0)
memcache_Client(host, port) == [servers |-> <<format(host) \o ":" \o format(port)>>]

\* Mutant of Memcache_connect: `if host or port`.
Memcache_connect_or(self, host, port, decay) ==
    IF truthy(host) \/ truthy(port)
    THEN [host |-> host, port |-> port, decay |-> decay,
          cache |-> memcache_Client(host, port)]
    ELSE self

\* Memcache.connect on the object with fields self
Memcache_connect(self, host, port, decay) ==
    IF truthy(host) /\ truthy(port)
    THEN [host |-> host, port |-> port, decay |-> decay,
          cache |-> memcache_Client(host, port)]
    ELSE self

\* Memcache.__init__
Memcache_init(host, port, decay) ==
    Memcache_connect([host |-> host, port |-> port, decay |-> decay, cache |-> None],
                     host, port, decay)

\* Callers of the concurrent specification.
Callers == {"t1", "t2"}

\* -------------------------------------------------------- MongoTable

\* MongoTable.__contains__ on table `name` with collection c and cache m.
MongoTable_contains(name, c, m, value) ==
    LET r0 == IF mc_cache THEN Memcache_get(m, value, mc_prefix(name)) ELSE None
        r  == IF r0 = None THEN find_one(c, key_name(name), value) ELSE r0
    IN  [status |-> "ok", value |-> PyBool(r # None), hit |-> r0 # None, c |-> c,
         m |-> IF mc_cache /\ r # None
               THEN Memcache_set(m, value, r, mc_prefix(name)) ELSE m,
         calls |-> IF ~mc_cache THEN <<>>
                   ELSE <<mc_call("get", value, mc_prefix(name))>>
                        \o IF r # None
                           THEN <<mc_call("set", value, mc_prefix(name))>> ELSE <<>>]

\* Mutant of MongoTable_len: the count is looked up in the cache first.
MongoTable_len_viacache(c) ==
    [status |-> "ok", value |-> PyInt(coll_count(c)), hit |-> FALSE,
     calls |-> IF mc_cache THEN << <<"get", "count">> >> ELSE <<>>]

\* MongoTable.__len__
MongoTable_len(c) ==
    [status |-> "ok", value |-> PyInt(coll_count(c)), hit |-> FALSE, calls |-> <<>>]

\* MongoTable.__iter__, one element of the generator expression: the key of
\* the document i the cursor delivers.  i[key_name] raises KeyError for a
\* document without the key field.
MongoTable_iter(name, i) ==
    IF key_name(name) \in DOMAIN i
    THEN [status |-> "ok", value |-> PyScalar(i[key_name(name)]), calls |-> <<>>]
    ELSE [status |-> "KeyError", value |-> PyNone, calls |-> <<>>]

\* Mutant of MongoTable_iteritems: d.pop('_id') is left out.
MongoTable_iteritems_keepid(name, i) ==
    LET d1 == dict_pop(i, key_name(name)) IN
    IF d1.status # "ok"
    THEN [status |-> "KeyError", value |-> PyNone, calls |-> <<>>]
    ELSE [status |-> "ok", calls |-> <<>>,
          value |-> PyTuple(<<PyScalar(i[key_name(name)]), PyDict(d1.d)>>)]

\* MongoTable.iteritems, one turn of its loop over the cursor: for the
\* document i, the pair of its key and a copy of it without key field and
\* _id.  Either pop raises KeyError if the document lacks the field.
MongoTable_iteritems(name, i) ==
    LET d1 == dict_pop(i, key_name(name))
        d2 == dict_pop(d1.d, "_id")
    IN  IF d1.status # "ok" \/ d2.status # "ok"
        THEN [status |-> "KeyError", value |-> PyNone, calls |-> <<>>]
        ELSE [status |-> "ok", calls |-> <<>>,
              value |-> PyTuple(<<PyScalar(i[key_name(name)]), PyDict(d2.d)>>)]

\* ------------------------------------------------ MongoSingleValueTable

\* Mutant of SingleValue_setitem: no assert on the value's type.
SingleValue_setitem_noassert(name, c, m, key_val, data, oid, ack) ==
    LET doc == dict_set(dict_set(<<>>, "val", IF isinstance_dict(data) THEN "dict" ELSE data.s),
                        key_name(name), key_val)
        u == coll_upsert(c, key_name(name), key_val, doc, oid)
    IN  [status |-> "ok", c |-> u.c, fresh |-> u.fresh,
         calls |-> IF mc_cache
                   THEN <<mc_call("delete", key_val, mc_prefix(name))>> ELSE <<>>,
         m |-> IF mc_cache
               THEN Memcache_delete(m, key_val, mc_prefix(name)) ELSE m]

\* Mutant of SingleValue_setitem: write-through, the cache entry is set to
\* the written document instead of being deleted.
SingleValue_setitem_writethrough(name, c, m, key_val, data, oid, ack) ==
    IF isinstance_dict(data)
    THEN [status |-> "AssertionError", c |-> c, m |-> m, fresh |-> FALSE,
          calls |-> <<>>]
    ELSE LET doc == dict_set(dict_set(<<>>, "val", data.s), key_name(name), key_val)
             u == coll_upsert(c, key_name(name), key_val, doc, oid)
         IN  [status |-> "ok", c |-> u.c, fresh |-> u.fresh,
              calls |-> IF mc_cache
                        THEN <<mc_call("set", key_val, mc_prefix(name))>> ELSE <<>>,
              m |-> IF mc_cache
                    THEN Memcache_set(m, key_val, doc, mc_prefix(name)) ELSE m]

\* Mutant of SingleValue_setitem: the cache entry is not deleted.
SingleValue_setitem_noinvalidate(name, c, m, key_val, data, oid, ack) ==
    IF isinstance_dict(data)
    THEN [status |-> "AssertionError", c |-> c, m |-> m, fresh |-> FALSE,
          calls |-> <<>>]
    ELSE LET doc == dict_set(dict_set(<<>>, "val", data.s), key_name(name), key_val)
             u == coll_upsert(c, key_name(name), key_val, doc, oid)
         IN  [status |-> "ok", c |-> u.c, fresh |-> u.fresh, m |-> m, calls |-> <<>>]

\* MongoSingleValueTable.__setitem__ (update with safe=True)
SingleValue_setitem(name, c, m, key_val, data, oid, ack) ==
    IF isinstance_dict(data)
    THEN [status |-> "AssertionError", c |-> c, m |-> m, fresh |-> FALSE,
          calls |-> <<>>]
    ELSE LET doc == dict_set(dict_set(<<>>, "val", data.s), key_name(name), key_val)
             u == coll_upsert(c, key_name(name), key_val, doc, oid)
         IN  IF u.err
             THEN [status |-> "OperationFailure", c |-> c, m |-> m, fresh |-> FALSE,
                   calls |-> <<>>]
             ELSE [status |-> "ok", c |-> u.c, fresh |-> u.fresh,
                   calls |-> IF mc_cache
                             THEN <<mc_call("delete", key_val, mc_prefix(name))>> ELSE <<>>,
                   m |-> IF mc_cache
                         THEN Memcache_delete(m, key_val, mc_prefix(name)) ELSE m]

\* MongoSingleValueTable.__getitem__
SingleValue_getitem(name, c, m, key_val) ==
    LET r0 == IF mc_cache THEN Memcache_get(m, key_val, mc_prefix(name)) ELSE None
        r  == IF r0 = None THEN find_one(c, key_name(name), key_val) ELSE r0
    IN  IF r = None
        THEN [status |-> "KeyError", value |-> PyNone, hit |-> FALSE, c |-> c, m |-> m,
              calls |-> IF mc_cache
                        THEN <<mc_call("get", key_val, mc_prefix(name))>> ELSE <<>>]
        ELSE [status |-> "ok", value |-> PyScalar(r["val"]), hit |-> r0 # None, c |-> c,
              m |-> IF mc_cache
                    THEN Memcache_set(m, key_val, r, mc_prefix(name)) ELSE m,
              calls |-> IF mc_cache
                        THEN <<mc_call("get", key_val, mc_prefix(name)),
                               mc_call("set", key_val, mc_prefix(name))>>
                        ELSE <<>>]

\* ------------------------------------------------- MongoMultiValueTable

\* Mutant of MultiValue_setitem: the cache entry is not deleted.
MultiValue_setitem_noinvalidate(name, c, m, key_val, data, oid, ack) ==
    IF ~isinstance_dict(data)
    THEN [status |-> "AssertionError", c |-> c, m |-> m, fresh |-> FALSE,
          calls |-> <<>>]
    ELSE IF key_name(name) \in DOMAIN data.d /\ data.d[key_name(name)] # key_val
    THEN [status |-> "AssertionError", c |-> c, m |-> m, fresh |-> FALSE,
          calls |-> <<>>]
    ELSE LET doc == IF key_name(name) \in DOMAIN data.d THEN data.d
                    ELSE dict_set(data.d, key_name(name), key_val)
             u == coll_upsert(c, key_name(name), key_val, doc, oid)
         IN  IF u.err /\ ack
             THEN [status |-> "OperationFailure", c |-> c, m |-> m, fresh |-> FALSE,
                   calls |-> <<>>]
             ELSE [status |-> "ok", c |-> u.c, fresh |-> u.fresh,
                   m |-> m, calls |-> <<>>]

\* Mutant of MultiValue_setitem: the key field is neither checked nor
\* injected.
MultiValue_setitem_nokey(name, c, m, key_val, data, oid, ack) ==
    IF ~isinstance_dict(data)
    THEN [status |-> "AssertionError", c |-> c, m |-> m, fresh |-> FALSE,
          calls |-> <<>>]
    ELSE LET u == coll_upsert(c, key_name(name), key_val, data.d, oid)
         IN  IF u.err /\ ack
             THEN [status |-> "OperationFailure", c |-> c, m |-> m, fresh |-> FALSE,
                   calls |-> <<>>]
             ELSE [status |-> "ok", c |-> u.c, fresh |-> u.fresh,
                   calls |-> IF mc_cache
                             THEN <<mc_call("delete", key_val, mc_prefix(name))>> ELSE <<>>,
                   m |-> IF mc_cache
                         THEN Memcache_delete(m, key_val, mc_prefix(name)) ELSE m]

\* MongoMultiValueTable.__setitem__.  update() is called without safe=True:
\* a write the server refuses raises OperationFailure when the driver waits
\* for the acknowledgement (ack: pymongo.MongoClient) and goes unnoticed
\* when it does not (the pymongo.Connection fallback).
MultiValue_setitem(name, c, m, key_val, data, oid, ack) ==
    IF ~isinstance_dict(data)
    THEN [status |-> "AssertionError", c |-> c, m |-> m, fresh |-> FALSE,
          calls |-> <<>>]
    ELSE IF key_name(name) \in DOMAIN data.d /\ data.d[key_name(name)] # key_val
    THEN [status |-> "AssertionError", c |-> c, m |-> m, fresh |-> FALSE,
          calls |-> <<>>]
    ELSE LET doc == IF key_name(name) \in DOMAIN data.d THEN data.d
                    ELSE dict_set(data.d, key_name(name), key_val)
             u == coll_upsert(c, key_name(name), key_val, doc, oid)
         IN  IF u.err /\ ack
             THEN [status |-> "OperationFailure", c |-> c, m |-> m, fresh |-> FALSE,
                   calls |-> <<>>]
             ELSE [status |-> "ok", c |-> u.c, fresh |-> u.fresh,
                   calls |-> IF mc_cache
                             THEN <<mc_call("delete", key_val, mc_prefix(name))>> ELSE <<>>,
                   m |-> IF mc_cache
                         THEN Memcache_delete(m, key_val, mc_prefix(name)) ELSE m]

\* Mutant of MultiValue_getitem: _MC.set only for a document fetched from
\* the store.
MultiValue_getitem_storepath(name, c, m, key_val) ==
    LET r0 == IF mc_cache THEN Memcache_get(m, key_val, mc_prefix(name)) ELSE None
        r  == IF r0 = None THEN find_one(c, key_name(name), key_val) ELSE r0
    IN  IF r = None
        THEN [status |-> "KeyError", value |-> PyNone, hit |-> FALSE, c |-> c, m |-> m,
              calls |-> IF mc_cache
                        THEN <<mc_call("get", key_val, mc_prefix(name))>> ELSE <<>>]
        ELSE [status |-> "ok", value |-> PyDict(r), hit |-> r0 # None, c |-> c,
              m |-> IF mc_cache /\ r0 = None
                    THEN Memcache_set(m, key_val, r, mc_prefix(name)) ELSE m,
              calls |-> IF ~mc_cache THEN <<>>
                        ELSE <<mc_call("get", key_val, mc_prefix(name))>>
                             \o IF r0 = None
                                THEN <<mc_call("set", key_val, mc_prefix(name))>>
                                ELSE <<>>]

\* MongoMultiValueTable.__getitem__: the value is the dict of the returned
\* MongoMutableDict
MultiValue_getitem(name, c, m, key_val) ==
    LET r0 == IF mc_cache THEN Memcache_get(m, key_val, mc_prefix(name)) ELSE None
        r  == IF r0 = None THEN find_one(c, key_name(name), key_val) ELSE r0
    IN  IF r = None
        THEN [status |-> "KeyError", value |-> PyNone, hit |-> FALSE, c |-> c, m |-> m,
              calls |-> IF mc_cache
                        THEN <<mc_call("get", key_val, mc_prefix(name))>> ELSE <<>>]
        ELSE [status |-> "ok", value |-> PyDict(r), hit |-> r0 # None, c |-> c,
              m |-> IF mc_cache
                    THEN Memcache_set(m, key_val, r, mc_prefix(name)) ELSE m,
              calls |-> IF mc_cache
                        THEN <<mc_call("get", key_val, mc_prefix(name)),
                               mc_call("set", key_val, mc_prefix(name))>>
                        ELSE <<>>]

\* self[key_val] / self[key_val] = data: dispatch on the table's class
getitem(name, c, m, key_val) ==
    IF is_multi(name) THEN MultiValue_getitem(name, c, m, key_val)
    ELSE SingleValue_getitem(name, c, m, key_val)

setitem(name, c, m, key_val, data, oid, ack) ==
    IF is_multi(name) THEN MultiValue_setitem(name, c, m, key_val, data, oid, ack)
    ELSE SingleValue_setitem(name, c, m, key_val, data, oid, ack)

\* Mutant of MongoTable_pop: the cache entry is not deleted.
MongoTable_pop_nodelete(name, c, m, key_val) ==
    LET g == getitem(name, c, m, key_val) IN
    IF g.status # "ok"
    THEN g
    ELSE [status |-> "ok", value |-> g.value, hit |-> g.hit,
          c |-> coll_remove(c, key_name(name), key_val), m |-> g.m,
          calls |-> g.calls]

\* Mutant of MongoTable_pop: a missing key is a silent no-op.
MongoTable_pop_silent(name, c, m, key_val) ==
    LET g == getitem(name, c, m, key_val) IN
    [status |-> "ok", value |-> g.value, hit |-> g.hit,
     c |-> coll_remove(c, key_name(name), key_val),
     m |-> IF mc_cache
           THEN Memcache_delete(g.m, key_val, mc_prefix(name)) ELSE g.m,
     calls |-> IF mc_cache
               THEN g.calls \o <<mc_call("delete", key_val, mc_prefix(name))>>
               ELSE <<>>]

\* MongoTable.pop
MongoTable_pop(name, c, m, key_val) ==
    LET g == getitem(name, c, m, key_val) IN
    IF g.status # "ok"
    THEN g
    ELSE [status |-> "ok", value |-> g.value, hit |-> g.hit,
          c |-> coll_remove(c, key_name(name), key_val),
          m |-> IF mc_cache
                THEN Memcache_delete(g.m, key_val, mc_prefix(name)) ELSE g.m,
          calls |-> IF mc_cache
                    THEN g.calls \o <<mc_call("delete", key_val, mc_prefix(name))>>
                    ELSE <<>>]

\* MongoMutableDict.__init__
MongoMutableDict(parent, root_key, d) == [parent |-> parent, root_key |-> root_key, d |-> d]

\* MongoMutableDict.__setitem__ on the view self: the item is set, then the
\* view itself is passed to the parent's __setitem__.  When the view has no
\* key field, the parent's data[key_name] = key_val is an assignment to the
\* view and enters MongoMutableDict.__setitem__ again: the nested call
\* writes the view back, then the outer call goes on to its own update()
\* and _MC.delete.  Result: the view's items d and the outcome of the call.
MongoMutableDict_setitem(self, k, v, c, m, oid, ack) ==
    LET name == self.parent.name
        d == dict_set(self.d, k, v)
    IN  IF key_name(name) \in DOMAIN d
        THEN LET res == setitem(name, c, m, self.root_key, PyDict(d), oid, ack)
             IN  [d |-> d, status |-> res.status, c |-> res.c, m |-> res.m,
                  fresh |-> res.fresh, calls |-> res.calls]
        ELSE LET d2 == dict_set(d, key_name(name), self.root_key)
                 inner == setitem(name, c, m, self.root_key, PyDict(d2), oid, ack)
                 outer == setitem(name, inner.c, inner.m, self.root_key, PyDict(d2),
                                  IF inner.fresh THEN oid + 1 ELSE oid, ack)
             IN  IF inner.status # "ok"
                 THEN [d |-> d2, status |-> inner.status, c |-> inner.c, m |-> inner.m,
                       fresh |-> inner.fresh, calls |-> inner.calls]
                 ELSE [d |-> d2, status |-> outer.status, c |-> outer.c, m |-> outer.m,
                       fresh |-> inner.fresh \/ outer.fresh,
                       calls |-> inner.calls \o outer.calls]

\* dict.update({k: v}) inherited by MongoMutableDict: the item is set in the
\* view only (dict.update does not go through __setitem__).
dict_update(d, k, v) == dict_set(d, k, v)

\* ---------------------------------------------------------------- inputs

\* The dicts a caller passes to users[k] = ...: any fields, with or without
\* the key field.
Records(name) ==
    UNION {[S -> Values \cup Keys] : S \in SUBSET (Fields \cup {key_name(name)})}

CallerDicts(name) ==
    {r \in Records(name) :
        /\ \A f \in DOMAIN r \cap Fields : r[f] \in Values
        /\ key_name(name) \in DOMAIN r => r[key_name(name)] \in Keys}

SetData(name) == {PyDict(r) : r \in CallerDicts(name)} \cup {PyScalar(v) : v \in Values}

\* What a field of a MongoMutableDict may be assigned.
FieldValues(name, f) == IF f = key_name(name) THEN Keys ELSE Values

NoCall == [op |-> "init", h |-> None, key |-> "",
           status |-> "ok", value |-> PyNone, hit |-> FALSE, calls |-> <<>>]

Call(op, h, k, res) ==
    [op |-> op, h |-> h, key |-> k,
     status |-> res.status, value |-> res.value, hit |-> res.hit,
     calls |-> res.calls]

\* ----------------------------------------------------------------- Init

\* After MongoDBBackend.__init__ over an empty database, with or without
\* memcache_host/memcache_port.
Init ==
    /\ facades = {"cork"}
    /\ app \in Apps
    /\ mc_cache \in BOOLEAN
    /\ memcached = [ck \in CacheKeys |-> None]
    /\ coll = [h \in Handles |-> {}]
    /\ next_oid = 1
    /\ view = None
    /\ last = NoCall
    /\ MC = IF mc_cache
            THEN Memcache_connect(Memcache_init(PyNone, PyNone, PyInt(DefaultDecay)),
                                  PyScalar("mc1"), PyInt(11211),
                                  PyInt(DefaultDecay))
            ELSE Memcache_init(PyNone, PyNone, PyInt(DefaultDecay))
    /\ running = [t \in Callers |-> None]

\* -------------------------------------------------------------- actions

\* k in table
Contains(h, k) ==
    LET res == MongoTable_contains(h.name, coll[h], memcached, k) IN
    /\ memcached' = res.m
    /\ last' = Call("contains", h, k, res)
    /\ UNCHANGED <<facades, app, mc_cache, MC, running, coll, next_oid, view>>

\* table[k]; the caller keeps the returned MongoMutableDict or drops it
GetItem(h, k, keep) ==
    LET res == getitem(h.name, coll[h], memcached, k) IN
    /\ memcached' = res.m
    /\ view' = IF res.status = "ok" /\ is_multi(h.name) /\ keep
               THEN MongoMutableDict(h, k, res.value.d) ELSE view
    /\ last' = Call("get", h, k, res)
    /\ UNCHANGED <<facades, app, mc_cache, MC, running, coll, next_oid>>

\* table[k] = data
SetItem(h, k, data, ack) ==
    LET res == setitem(h.name, coll[h], memcached, k, data, next_oid, ack) IN
    /\ res.fresh => next_oid <= MaxOid
    /\ coll' = [coll EXCEPT ![h] = res.c]
    /\ memcached' = res.m
    /\ next_oid' = IF res.fresh THEN next_oid + 1 ELSE next_oid
    /\ last' = [op |-> "set", h |-> h, key |-> k,
                status |-> res.status, value |-> PyNone, hit |-> FALSE,
                calls |-> res.calls]
    /\ UNCHANGED <<facades, app, mc_cache, MC, running, view>>

\* table.pop(k).  The MongoMutableDict it returns is the one table[k] would
\* have returned just before; a caller that goes on to use it is the caller
\* that kept that one, so the returned value is only recorded in last.
Pop(h, k) ==
    LET res == MongoTable_pop(h.name, coll[h], memcached, k) IN
    /\ coll' = [coll EXCEPT ![h] = res.c]
    /\ memcached' = res.m
    /\ last' = Call("pop", h, k, res)
    /\ UNCHANGED <<facades, app, mc_cache, MC, running, next_oid, view>>

\* MongoMutableDict.__setitem__: view[f] = v
ViewSetItem(f, v, ack) ==
    /\ view # None
    /\ LET h == view.parent
           res == MongoMutableDict_setitem(view, f, v, coll[h], memcached, next_oid, ack)
       IN  /\ res.fresh => next_oid <= MaxOid
           /\ view' = [view EXCEPT !.d = res.d]
           /\ coll' = [coll EXCEPT ![h] = res.c]
           /\ memcached' = res.m
           /\ next_oid' = IF res.fresh THEN next_oid + 1 ELSE next_oid
           /\ last' = [op |-> "view_set", h |-> h, key |-> view.root_key,
                       status |-> res.status,
                       value |-> PyNone, hit |-> FALSE, calls |-> res.calls]
    /\ UNCHANGED <<facades, app, mc_cache, MC, running>>

\* view.update({f: v}), inherited from dict (view.setdefault(f, v) on a
\* view without f does the same): the view changes, parent and cache are
\* not called.
ViewUpdate(f, v) ==
    /\ view # None
    /\ view' = [view EXCEPT !.d = dict_update(view.d, f, v)]
    /\ last' = [op |-> "view_update", h |-> view.parent, key |-> view.root_key,
                status |-> "ok", value |-> PyNone, hit |-> FALSE, calls |-> <<>>]
    /\ UNCHANGED <<facades, app, mc_cache, MC, running, memcached, coll, next_oid>>

\* del view[f], inherited from dict (view.pop(f) removes the same item;
\* clear() and popitem() remove items one after the other): the view
\* changes, parent and cache are not called; KeyError without the item.
ViewDel(f) ==
    /\ view # None
    /\ LET res == dict_pop(view.d, f) IN
       /\ view' = [view EXCEPT !.d = res.d]
       /\ last' = [op |-> "view_del", h |-> view.parent, key |-> view.root_key,
                   status |-> res.status, value |-> PyNone, hit |-> FALSE,
                   calls |-> <<>>]
    /\ UNCHANGED <<facades, app, mc_cache, MC, running, memcached, coll, next_oid>>

\* len(table)
Length(h) ==
    /\ last' = Call("len", h, "", MongoTable_len(coll[h]))
    /\ UNCHANGED <<facades, app, mc_cache, MC, running, memcached, coll, next_oid, view>>

\* A memcache entry reaches its decay time and is dropped by the server.
Expire(ck) ==
    /\ memcached[ck] # None
    /\ memcached' = [memcached EXCEPT ![ck] = None]
    /\ last' = [op |-> "expire", h |-> None, key |-> ck,
                status |-> "ok", value |-> PyNone, hit |-> FALSE, calls |-> <<>>]
    /\ UNCHANGED <<facades, app, mc_cache, MC, running, coll, next_oid, view>>

\* The tables the application holds: backend.users, backend.roles, ...
Tables == {h \in Handles : h.db \in facades /\ h.name \in app}

\* Whether the server refuses the write of data under key k of table h.
Refused(h, k, data) ==
    /\ is_multi(h.name)
    /\ isinstance_dict(data)
    /\ key_name(h.name) \in DOMAIN data.d => data.d[key_name(h.name)] = k
    /\ coll_upsert(coll[h], key_name(h.name), k,
                   dict_set(data.d, key_name(h.name), k), next_oid).err

\* The driver's write acknowledgement matters only for a refused write.
Acks(h, k, data) == IF Refused(h, k, data) THEN BOOLEAN ELSE {TRUE}

Next ==
    \/ \E h \in Tables, k \in Keys : Contains(h, k)
    \/ \E h \in Tables, k \in Keys, keep \in BOOLEAN : GetItem(h, k, keep)
    \/ \E h \in Tables, k \in Keys : \E data \in SetData(h.name) :
          \E ack \in Acks(h, k, data) : SetItem(h, k, data, ack)
    \/ \E h \in Tables, k \in Keys : Pop(h, k)
    \/ \E h \in Tables : \E f \in Fields \cup {key_name(h.name)} :
          \E v \in FieldValues(h.name, f), ack \in BOOLEAN :
             view # None /\ view.parent = h /\ ViewSetItem(f, v, ack)
    \/ \E h \in Tables : \E f \in Fields \cup {key_name(h.name)} :
          \E v \in FieldValues(h.name, f) :
             view # None /\ view.parent = h /\ ViewUpdate(f, v)
    \/ \E h \in Tables : \E f \in Fields \cup {key_name(h.name), "_id"} :
          view # None /\ view.parent = h /\ ViewDel(f)
    \/ \E ck \in CacheKeys : Expire(ck)

Spec == Init /\ [][Next]_vars

\* ------------------------------------------------------------ enumeration

\* iter(table) and table.iteritems() return a generator; the caller gets
\* control back at every yield and may call the table before the next
\* next().  The frame of a suspended generator holds pc ("start": no
\* next() yet, the cursor has sent no query; "yield": suspended at a yield),
\* the values out it has yielded, the cache calls it has made, and its
\* cursor: the documents r of the last batch it has still to deliver, the
\* _ids seen that the server has sent so far, and whether the server keeps
\* the cursor open for a further batch.

\* The caller that enumerates.
Enumerator == "t1"

\* Mutant of Generator: the table keeps one cursor for all its generators,
\* so a new generator goes on where the caller's earlier one had got to.
Generator_sharedcursor(op, h) ==
    IF running[Enumerator] # None /\ running[Enumerator].h = h
    THEN [running[Enumerator] EXCEPT !.op = op, !.out = <<>>, !.calls = <<>>]
    ELSE [op |-> op, h |-> h, pc |-> "start", out |-> <<>>, calls |-> <<>>,
          r |-> <<>>, seen |-> {}, open |-> TRUE]

\* The generator a call of __iter__ or iteritems returns.
Generator(op, h) ==
    [op |-> op, h |-> h, pc |-> "start", out |-> <<>>, calls |-> <<>>,
     r |-> <<>>, seen |-> {}, open |-> TRUE]

\* it = iter(table): __iter__ makes the cursor and the generator expression
Iter(t, h) ==
    /\ running' = [running EXCEPT ![t] = Generator("iter", h)]
    /\ UNCHANGED <<facades, app, mc_cache, MC, memcached, coll, next_oid, view, last>>

\* it = table.iteritems(): no statement of the body runs yet
IterItems(t, h) ==
    /\ running' = [running EXCEPT ![t] = Generator("iteritems", h)]
    /\ UNCHANGED <<facades, app, mc_cache, MC, memcached, coll, next_oid, view, last>>

\* The _ids of a set of documents.
Ids(docs) == {d["_id"] : d \in docs}

\* The cursor of the generator f as its next() finds it.  A cursor that
\* still holds documents of its last batch, or that the server has closed,
\* is used as it is.  Otherwise the cursor asks the server (the query at
\* the first next(), a further batch later) and the server answers from the
\* collection as it is now: a batch of documents it has not sent yet, in
\* any order; how many documents make a batch is the server's choice (101
\* documents or a size limit), so every non-empty selection is a possible
\* batch.  The server closes the cursor when nothing was left to send, and
\* may close it or keep it open when the batch took all that was left.
Cursors(f) ==
    IF f.r # <<>> \/ ~f.open
    THEN {[r |-> f.r, seen |-> f.seen, open |-> f.open]}
    ELSE LET left == {d \in coll[f.h] : d["_id"] \notin f.seen} IN
         IF left = {}
         THEN {[r |-> <<>>, seen |-> f.seen, open |-> FALSE]}
         ELSE UNION {{[r |-> b, seen |-> f.seen \cup Ids(S), open |-> more] :
                         b \in find(S), more \in IF S = left THEN BOOLEAN ELSE {TRUE}} :
                     S \in (SUBSET left) \ {{}}}

\* next(it), with cur the cursor as this next() finds it.  A cursor with
\* nothing to deliver ends the generator (StopIteration), and the
\* enumeration is recorded in last; otherwise the next element is yielded.
GenNext(t, cur) ==
    /\ running[t] # None /\ running[t].op \in {"iter", "iteritems"}
    /\ LET f == running[t] IN
       /\ cur \in Cursors(f)
       /\ IF cur.r = <<>>
          THEN /\ running' = [running EXCEPT ![t] = None]
               /\ last' = [op |-> f.op, h |-> f.h, key |-> "", status |-> "ok",
                           value |-> PyList(f.out), hit |-> FALSE, calls |-> f.calls]
          ELSE LET res == IF f.op = "iter" THEN MongoTable_iter(f.h.name, Head(cur.r))
                          ELSE MongoTable_iteritems(f.h.name, Head(cur.r))
               IN  IF res.status = "ok"
                   THEN /\ running' = [running EXCEPT ![t] =
                              [f EXCEPT !.pc = "yield", !.r = Tail(cur.r),
                                        !.seen = cur.seen, !.open = cur.open,
                                        !.out = Append(f.out, res.value),
                                        !.calls = f.calls \o res.calls]]
                        /\ last' = last
                   ELSE /\ running' = [running EXCEPT ![t] = None]
                        /\ last' = [op |-> f.op, h |-> f.h, key |-> "",
                                    status |-> res.status, value |-> PyList(f.out),
                                    hit |-> FALSE, calls |-> f.calls \o res.calls]
    /\ UNCHANGED <<facades, app, mc_cache, MC, memcached, coll, next_oid, view>>

\* The values the enumerating caller stores: records with and without an
\* email, one role value.
EnumData(name) ==
    IF is_multi(name) THEN {PyDict(<<>>), PyDict([email |-> "x"])}
    ELSE {PyScalar("x")}

\* One caller who enumerates a table and calls it between two next(), with
\* the cache connected.
NextIter ==
    \/ \E h \in Tables, k \in Keys : GetItem(h, k, FALSE)
    \/ \E h \in Tables, k \in Keys : \E data \in EnumData(h.name) :
          SetItem(h, k, data, TRUE)
    \/ \E h \in Tables, k \in Keys : Pop(h, k)
    \/ \E h \in Tables : Length(h)
    \/ \E h \in Tables : Iter(Enumerator, h)
    \/ \E h \in Tables : IterItems(Enumerator, h)
    \/ /\ running[Enumerator] # None
       /\ \E cur \in Cursors(running[Enumerator]) : GenNext(Enumerator, cur)

InitIter == Init /\ mc_cache

SpecIter == InitIter /\ [][NextIter]_vars

\* ------------------------------------------------------ concurrent callers

\* Several threads of one process call the tables of one facade.  A step is
\* one call to the store or to memcache, together with the Python code up
\* to the next such call; the calls themselves are atomic.  A frame is the
\* call a thread is in: the method, its table and key, the value to store,
\* the local variable r, and pc, the store or cache call that comes next.

\* The caller enters k in table, table[k], table.pop(k) or table[k] = data.
T_Call(t, op, h, k, data) ==
    /\ running[t] = None
    /\ running' = [running EXCEPT ![t] =
          [op |-> op, h |-> h, key |-> k, data |-> data, r |-> None, hit |-> FALSE,
           pc |-> IF op = "set" THEN "update"
                  ELSE IF mc_cache THEN "mc_get" ELSE "find_one"]]
    /\ UNCHANGED <<facades, app, mc_cache, MC, memcached, coll, next_oid, view, last>>

\* The call of the frame f returns value or raises status.
T_Return(t, f, status, value) ==
    /\ running' = [running EXCEPT ![t] = None]
    /\ last' = [op |-> f.op, h |-> f.h, key |-> f.key, caller |-> t,
                status |-> status, value |-> value, hit |-> f.hit]

\* What follows once r holds a document and the cache has been set:
\* __contains__ and __getitem__ return, pop goes on to remove.
T_Found(t, f) ==
    IF f.op = "pop"
    THEN running' = [running EXCEPT ![t] = [f EXCEPT !.pc = "remove"]] /\ last' = last
    ELSE IF f.op = "contains"
    THEN T_Return(t, f, "ok", PyBool(TRUE))
    ELSE T_Return(t, f, "ok", IF is_multi(f.h.name) THEN PyDict(f.r)
                                ELSE PyScalar(f.r["val"]))

\* r = _MC.get(key, self._mc_prefix)
T_McGet(t) ==
    /\ running[t] # None /\ running[t].pc = "mc_get"
    /\ LET f == running[t]
           r == Memcache_get(memcached, f.key, mc_prefix(f.h.name))
       IN  running' = [running EXCEPT ![t] =
               [f EXCEPT !.r = r, !.hit = (r # None),
                         !.pc = IF r = None THEN "find_one" ELSE "mc_set"]]
    /\ UNCHANGED <<facades, app, mc_cache, MC, memcached, coll, next_oid, view, last>>

\* r = self._coll.find_one({self._key_name: key}); a missing key ends the
\* call: KeyError from __getitem__ and pop, False from __contains__.
T_FindOne(t) ==
    /\ running[t] # None /\ running[t].pc = "find_one"
    /\ LET f == running[t]
           r == find_one(coll[f.h], key_name(f.h.name), f.key)
       IN  IF r = None
           THEN IF f.op = "contains"
                THEN T_Return(t, f, "ok", PyBool(FALSE))
                ELSE T_Return(t, f, "KeyError", PyNone)
           ELSE IF mc_cache
           THEN /\ running' = [running EXCEPT ![t] = [f EXCEPT !.r = r, !.pc = "mc_set"]]
                /\ last' = last
           ELSE T_Found(t, [f EXCEPT !.r = r])
    /\ UNCHANGED <<facades, app, mc_cache, MC, memcached, coll, next_oid, view>>

\* _MC.set(key, r, self._mc_prefix)
T_McSet(t) ==
    /\ running[t] # None /\ running[t].pc = "mc_set"
    /\ LET f == running[t] IN
       /\ memcached' = Memcache_set(memcached, f.key, f.r, mc_prefix(f.h.name))
       /\ T_Found(t, f)
    /\ UNCHANGED <<facades, app, mc_cache, MC, coll, next_oid, view>>

\* self._coll.remove({self._key_name: key_val}, safe=True)
T_Remove(t) ==
    /\ running[t] # None /\ running[t].pc = "remove"
    /\ LET f == running[t] IN
       /\ coll' = [coll EXCEPT ![f.h] = coll_remove(coll[f.h], key_name(f.h.name), f.key)]
       /\ IF mc_cache
          THEN running' = [running EXCEPT ![t] = [f EXCEPT !.pc = "mc_delete"]]
               /\ last' = last
          ELSE T_Return(t, f, "ok", IF is_multi(f.h.name) THEN PyDict(f.r)
                                      ELSE PyScalar(f.r["val"]))
    /\ UNCHANGED <<facades, app, mc_cache, MC, memcached, next_oid, view>>

\* The asserts of __setitem__ and self._coll.update(spec, data, upsert=True)
T_Update(t, ack) ==
    /\ running[t] # None /\ running[t].pc = "update"
    /\ LET f == running[t]
           res == setitem(f.h.name, coll[f.h], memcached, f.key, f.data, next_oid, ack)
       IN  /\ res.fresh => next_oid <= MaxOid
           /\ coll' = [coll EXCEPT ![f.h] = res.c]
           /\ next_oid' = IF res.fresh THEN next_oid + 1 ELSE next_oid
           /\ IF res.status = "ok" /\ mc_cache
              THEN running' = [running EXCEPT ![t] = [f EXCEPT !.pc = "mc_delete"]]
                   /\ last' = last
              ELSE T_Return(t, f, res.status, PyNone)
    /\ UNCHANGED <<facades, app, mc_cache, MC, memcached, view>>

\* _MC.delete(key_val, self._mc_prefix), the last call of __setitem__ and pop
T_McDelete(t) ==
    /\ running[t] # None /\ running[t].pc = "mc_delete"
    /\ LET f == running[t] IN
       /\ memcached' = Memcache_delete(memcached, f.key, mc_prefix(f.h.name))
       /\ T_Return(t, f, "ok", IF f.op = "set" THEN PyNone
                                ELSE IF is_multi(f.h.name) THEN PyDict(f.r)
                                ELSE PyScalar(f.r["val"]))
    /\ UNCHANGED <<facades, app, mc_cache, MC, coll, next_oid, view>>

\* The callers contend for one key.
HotKeys == {"alice"}

NextThreads ==
    \E t \in Callers :
        \/ \E h \in Tables, k \in HotKeys, op \in {"get", "contains", "pop"} :
              T_Call(t, op, h, k, PyNone)
        \/ \E h \in Tables, k \in HotKeys : \E data \in SetData(h.name) :
              T_Call(t, "set", h, k, data)
        \/ T_McGet(t)
        \/ T_FindOne(t)
        \/ T_McSet(t)
        \/ T_Remove(t)
        \/ \E ack \in BOOLEAN : T_Update(t, ack)
        \/ T_McDelete(t)

\* One facade with the cache connected, called by the threads of Callers.
InitThreads == Init /\ mc_cache

SpecThreads == InitThreads /\ [][NextThreads]_vars

\* ------------------------------------------------------- cache key calls

\* Keys as Python values: the login names, and 1 as a str and as an int,
\* which MongoDB keeps apart ({'login': '1'} does not match {'login': 1}).
PyKeys == {PyScalar(k) : k \in Keys \cup {"1"}} \cup {PyInt(1)}

\* _MC.key(key, table._mc_prefix) as get, set and delete call it; last
\* keeps this call and the one before it.
KeyCall(name, key) ==
    /\ last' = [op |-> "key", name |-> name, key |-> key,
                value |-> Memcache_key_format(key, PyScalar(mc_prefix(name))),
                before |-> IF last.op = "key"
                           THEN [name |-> last.name, key |-> last.key,
                                 value |-> last.value]
                           ELSE None]
    /\ UNCHANGED <<facades, app, mc_cache, MC, running, memcached, coll, next_oid, view>>

NextKeys == \E name \in TableNames, key \in PyKeys : KeyCall(name, key)

\* One facade with the cache connected, making cache key computations.
InitKeys == Init /\ mc_cache

SpecKeys == InitKeys /\ [][NextKeys]_vars

\* ------------------------------------------------- configuring the cache

\* The host, port and decay arguments as Python values: None or a value.
PyHosts == {PyNone} \cup {PyScalar(x) : x \in HostArgs}
PyPorts == {PyNone} \cup {PyInt(x) : x \in PortArgs}
PyDecays == {PyInt(x) : x \in DecayArgs}

\* After the module is imported: _MC = Memcache(), no MongoDBBackend yet.
InitConnect ==
    /\ facades = {}
    /\ app \in Apps
    /\ mc_cache = FALSE
    /\ memcached = [ck \in CacheKeys |-> None]
    /\ coll = [h \in Handles |-> {}]
    /\ next_oid = 1
    /\ view = None
    /\ last = NoCall
    /\ MC = Memcache_init(PyNone, PyNone, PyInt(DefaultDecay))
    /\ running = [t \in Callers |-> None]

\* _MC.connect(host, port, decay)
Connect(host, port, decay) ==
    /\ MC' = Memcache_connect(MC, host, port, decay)
    /\ mc_cache' = (MC'.cache # None)
    /\ last' = [op |-> "connect", host |-> host, port |-> port, decay |-> decay]
    /\ UNCHANGED <<facades, app, memcached, coll, next_oid, view, running>>

\* MongoDBBackend(db_name, memcache_host=host, memcache_port=port,
\* memcache_decay=decay): connects _MC if host and port are given, then
\* creates the three tables.
Backend(db_name, host, port, decay) ==
    /\ MC' = IF truthy(host) /\ truthy(port)
             THEN Memcache_connect(MC, host, port, decay) ELSE MC
    /\ mc_cache' = (MC'.cache # None)
    /\ facades' = facades \cup {db_name}
    /\ last' = [op |-> "backend", host |-> host, port |-> port, decay |-> decay]
    /\ UNCHANGED <<app, memcached, coll, next_oid, view, running>>

NextConnect ==
    \/ \E host \in PyHosts, port \in PyPorts, decay \in PyDecays :
          Connect(host, port, decay)
    \/ \E db_name \in Dbs, host \in PyHosts, port \in PyPorts, decay \in PyDecays :
          Backend(db_name, host, port, decay)

SpecConnect == InitConnect /\ [][NextConnect]_vars

\* ----------------------------------------------------------- two facades

\* After MongoDBBackend(db_name='cork', memcache_host=..., memcache_port=...)
\* and MongoDBBackend(db_name='cork_test', ...) in one process: two empty
\* databases and the one module-level _MC, connected.
InitFacades ==
    /\ facades = Dbs
    /\ app \in Apps
    /\ mc_cache = TRUE
    /\ memcached = [ck \in CacheKeys |-> None]
    /\ coll = [h \in Handles |-> {}]
    /\ next_oid = 1
    /\ view = None
    /\ last = NoCall
    /\ MC = Memcache_connect(Memcache_init(PyNone, PyNone, PyInt(DefaultDecay)),
                             PyScalar("mc1"), PyInt(11211), PyInt(DefaultDecay))
    /\ running = [t \in Callers |-> None]

\* The calls of an application that holds no MongoMutableDict and does not
\* enumerate: a part of the behaviours of Next, on the tables of both
\* facades.
NextFacades ==
    \/ \E h \in Tables, k \in Keys : Contains(h, k)
    \/ \E h \in Tables, k \in Keys : GetItem(h, k, FALSE)
    \/ \E h \in Tables, k \in Keys : \E data \in SetData(h.name) :
          \E ack \in Acks(h, k, data) : SetItem(h, k, data, ack)
    \/ \E h \in Tables, k \in Keys : Pop(h, k)
    \/ \E ck \in CacheKeys : Expire(ck)

SpecFacades == InitFacades /\ [][NextFacades]_vars

\* ------------------------------------------------- observing the state

\* The cache key of key k of table h.
CacheKey(h, k) == Memcache_key(k, mc_prefix(h.name))

\* The store's document for key k in collection c of table h, or None.
StoreDoc(h, c, k) == find_one(c, key_name(h.name), k)

\* What table[k] and (k in table) answer now, and after the step.
Get(h, k) == getitem(h.name, coll[h], memcached, k)
GetNext(h, k) == getitem(h.name, coll'[h], memcached', k)
Has(h, k) == MongoTable_contains(h.name, coll[h], memcached, k).value.b
HasNext(h, k) == MongoTable_contains(h.name, coll'[h], memcached', k).value.b

\* The step is the call op on key k of table h.
IsCall(op, h, k) == last'.op = op /\ last'.h = h /\ last'.key = k

\* The step writes key k of table h: a set, a view assignment or a remove.
IsWrite(h, k) == IsCall("set", h, k) \/ IsCall("view_set", h, k) \/ IsCall("pop", h, k)

\* The value table[k] returns equals r in every field of r.
Agrees(h, data, g) ==
    /\ g.status = "ok"
    /\ IF is_multi(h.name)
       THEN \A f \in DOMAIN data.d : f \in DOMAIN g.value.d /\ g.value.d[f] = data.d[f]
       ELSE g.value = data

\* ---------------------------------------------------------------- C1

\* What C1 asks of a single step.
C1_Step ==
    \A h \in Tables, k \in Keys :
        /\ (IsCall("set", h, k) /\ last'.status = "ok")
              => \A data \in SetData(h.name) : \A ack \in Acks(h, k, data) :
                    SetItem(h, k, data, ack)
                    => (Agrees(h, data, GetNext(h, k)) /\ ~GetNext(h, k).hit)
        /\ ~IsWrite(h, k)
              => /\ GetNext(h, k).status = Get(h, k).status
                 /\ Get(h, k).status = "ok" => GetNext(h, k).value = Get(h, k).value
        /\ (IsCall("get", h, k) /\ last'.status = "ok")
              => (GetNext(h, k).hit = mc_cache /\ last'.value = GetNext(h, k).value)

\* C1 (round trip): after a successful set(k, r) the next get(k) is answered
\* from the store and returns r in every field of r; every step that is not
\* a write to k (another call, an expiry, and the get itself, which leaves
\* the entry in the cache so that the next get is answered from the cache)
\* leaves the answer of get(k) as it is.
C1_RoundTrip == [][C1_Step]_vars

\* A get(k) answered from the cache, for a record that is in the store.
C1_Witness ==
    /\ last.op = "get" /\ last.status = "ok" /\ last.hit
    /\ StoreDoc(last.h, coll[last.h], last.key) # None

\* ---------------------------------------------------------------- C2

\* C2 as claimed (write-invalidate): a successful set(k, r) leaves no cache
\* entry for k, and the entry stays absent until the next get(k): the call
\* that follows the set, unless it is get(k), finds and leaves it absent.
C2_OnlyGetRepopulates ==
    [][\A h \in Tables, k \in Keys :
          /\ (IsCall("set", h, k) /\ last'.status = "ok")
                => memcached'[CacheKey(h, k)] = None
          /\ (/\ last.op = "set" /\ last.status = "ok"
              /\ last.h = h /\ last.key = k
              /\ ~IsCall("get", h, k))
                => memcached'[CacheKey(h, k)] = None]_vars

\* What C2 asks of a single step.
C2_Step ==
    \A h \in Tables, k \in Keys :
        /\ (IsCall("set", h, k) /\ last'.status = "ok")
              => \A data \in SetData(h.name) : \A ack \in Acks(h, k, data) :
                    SetItem(h, k, data, ack)
                    => /\ memcached'[CacheKey(h, k)] = None
                       /\ Agrees(h, data, GetNext(h, k))
        /\ (IsCall("view_set", h, k) /\ last'.status = "ok")
              => memcached'[CacheKey(h, k)] = None
        /\ (/\ memcached[CacheKey(h, k)] = None
            /\ ~IsCall("get", h, k) /\ ~IsCall("contains", h, k))
              => memcached'[CacheKey(h, k)] = None

\* C2 as amended: a successful set(k, r) leaves no cache entry for k and the
\* get(k) that follows returns r, whatever the cache held before; an absent
\* entry for k stays absent over every step but a get(k) or a contains(k).
C2_WriteInvalidate == [][C2_Step]_vars

\* After a set on a key whose record an earlier get had fetched: the store
\* holds another document than the one fetched, and the cache holds none.
C2_Witness ==
    /\ mc_cache /\ last.op = "set" /\ last.status = "ok"
    /\ view # None /\ view.parent = last.h /\ view.root_key = last.key
    /\ StoreDoc(last.h, coll[last.h], last.key) # None
    /\ StoreDoc(last.h, coll[last.h], last.key) # view.d
    /\ memcached[CacheKey(last.h, last.key)] = None

\* ---------------------------------------------------------------- C3

\* C3: for a key that has no document in the store, contains(k) is false and
\* get(k) raises KeyError, in every reachable state.
C3_AbsentKey ==
    \A h \in Tables, k \in Keys :
        StoreDoc(h, coll[h], k) = None
        => (~Has(h, k) /\ Get(h, k).status = "KeyError")

\* get(k) has just raised KeyError, with the cache enabled, for a key whose
\* record the caller had fetched before it was removed.
C3_Witness ==
    /\ mc_cache /\ last.op = "get" /\ last.status = "KeyError"
    /\ view # None /\ view.parent = last.h /\ view.root_key = last.key
    /\ StoreDoc(last.h, coll[last.h], last.key) = None

\* ---------------------------------------------------------------- C4

\* What C4 asks of a single step.
C4_Step ==
    \A h \in Tables, k \in Keys :
        (IsCall("pop", h, k) /\ StoreDoc(h, coll[h], k) # None)
        => /\ last'.status = "ok"
           /\ last'.value = Get(h, k).value
           /\ StoreDoc(h, coll'[h], k) = None
           /\ memcached'[CacheKey(h, k)] = None
           /\ ~HasNext(h, k)
           /\ GetNext(h, k).status = "KeyError"

\* C4: remove(k) on a key that is in the store returns what get(k) would
\* have returned, deletes the document and the cache entry, and leaves
\* contains(k) false and get(k) raising KeyError.
C4_Remove == [][C4_Step]_vars

\* A remove that found the key in the cache.
C4_Witness ==
    /\ last.op = "pop" /\ last.status = "ok" /\ last.hit
    /\ StoreDoc(last.h, coll[last.h], last.key) = None

\* ---------------------------------------------------------------- C5

\* What C5 asks of a single step.
C5_Step ==
    \A h \in Tables, k \in Keys :
        (IsCall("pop", h, k) /\ StoreDoc(h, coll[h], k) = None)
        => /\ last'.status = "KeyError"
           /\ coll' = coll
           /\ memcached' = memcached

\* C5: remove(k) on a key that is not in the store raises KeyError and
\* changes neither the store nor the cache.
C5_RemoveAbsent == [][C5_Step]_vars

\* A remove that raised KeyError while the table and the cache held another
\* key's record.
C5_Witness ==
    /\ last.op = "pop" /\ last.status = "KeyError"
    /\ coll[last.h] # {}
    /\ \E ck \in CacheKeys : memcached[ck] # None

\* ---------------------------------------------------------------- C6

\* C6 as claimed (mutable record view): after view[field] = v on a view of
\* key k whose key field is k, for a field other than the key field, get(k)
\* returns a record whose field has the value v.
C6_ViewReflects ==
    [][\A h \in Tables, k \in Keys :
          (/\ IsCall("view_set", h, k)
           /\ key_name(h.name) \in DOMAIN view.d /\ view.d[key_name(h.name)] = k)
          => \A f \in Fields : \A v \in Values, ack \in BOOLEAN :
                ViewSetItem(f, v, ack)
                => /\ GetNext(h, k).status = "ok"
                   /\ f \in DOMAIN GetNext(h, k).value.d
                   /\ GetNext(h, k).value.d[f] = v]_vars

\* ---------------------------------------------------------------- C7

\* C7 (uniqueness): every document carries its table's key field and no two
\* documents of a collection have the same key; after a successful set or
\* view assignment on k the collection holds exactly one document for k.
C7_Unique ==
    /\ \A h \in Handles : \A d1 \in coll[h] :
          /\ key_name(h.name) \in DOMAIN d1
          /\ \A d2 \in coll[h] :
                d1[key_name(h.name)] = d2[key_name(h.name)] => d1 = d2
    /\ (last.op \in {"set", "view_set"} /\ last.status = "ok")
          => Cardinality({d \in coll[last.h] : d[key_name(last.h.name)] = last.key}) = 1

\* A set has just replaced the record the caller had fetched: same _id,
\* other contents, and a second record under the other key.
C7_Witness ==
    /\ last.op = "set" /\ last.status = "ok"
    /\ view # None /\ view.parent = last.h /\ view.root_key = last.key
    /\ StoreDoc(last.h, coll[last.h], last.key) # None
    /\ StoreDoc(last.h, coll[last.h], last.key) # view.d
    /\ "_id" \in DOMAIN view.d
    /\ StoreDoc(last.h, coll[last.h], last.key)["_id"] = view.d["_id"]
    /\ Cardinality(coll[last.h]) = 2

\* ---------------------------------------------------------------- C8

\* What C8 asks of a single step.
C8_Step ==
    \A h \in Tables, k \in Keys :
        IsCall("set", h, k)
        => \A data \in SetData(h.name) : \A ack \in Acks(h, k, data) :
              (SetItem(h, k, data, ack) /\ (isinstance_dict(data) # is_multi(h.name)))
              => /\ last'.status = "AssertionError"
                 /\ coll' = coll
                 /\ memcached' = memcached

\* C8 (argument rejection): a dict given to the single-value table, and a
\* value that is no dict given to a multi-value table, end in AssertionError
\* with the store and the cache unchanged.
C8_Rejects == [][C8_Step]_vars

\* The single-value table has just rejected a value (only a dict is
\* rejected there) while it held a record and a cache entry.
C8_Witness ==
    /\ last.op = "set" /\ last.status = "AssertionError"
    /\ ~is_multi(last.h.name)
    /\ coll[last.h] # {}
    /\ \E ck \in CacheKeys : memcached[ck] # None

\* ---------------------------------------------------------------- C9

\* What C9 asks of a single step.
C9_Step ==
    \A h \in Tables, k \in Keys :
        is_multi(h.name)
        => /\ IsCall("set", h, k)
              => \A data \in SetData(h.name) : \A ack \in Acks(h, k, data) :
                    (/\ SetItem(h, k, data, ack)
                     /\ isinstance_dict(data)
                     /\ key_name(h.name) \in DOMAIN data.d
                     /\ data.d[key_name(h.name)] # k)
                    => /\ last'.status = "AssertionError"
                       /\ coll' = coll
                       /\ memcached' = memcached
           /\ IsCall("view_set", h, k)
              => \A v \in Keys \ {k} : \A ack \in BOOLEAN :
                    ViewSetItem(key_name(h.name), v, ack)
                    => /\ last'.status = "AssertionError"
                       /\ coll' = coll
                       /\ memcached' = memcached
           /\ ((IsCall("set", h, k) \/ IsCall("view_set", h, k)) /\ last'.status = "ok")
              => /\ \A d \in coll'[h] : key_name(h.name) \in DOMAIN d
                 /\ StoreDoc(h, coll'[h], k) # None
                 /\ {d \in coll'[h] : d[key_name(h.name)] # k}
                      = {d \in coll[h] : d[key_name(h.name)] # k}

\* C9 (key consistency): a multi-value set(k, r) whose r carries another key
\* than k, and a view assignment of another key to the key field, end in
\* AssertionError with the store and the cache unchanged; after every
\* successful set or view assignment every document carries the key field,
\* there is a document for k, and the other keys' documents are untouched.
C9_KeyConsistency == [][C9_Step]_vars

\* A view assignment has just been rejected: the view's key field holds
\* another key than the view's own, and the store still has the record.
C9_Witness ==
    /\ last.op = "view_set" /\ last.status = "AssertionError"
    /\ view # None /\ key_name(view.parent.name) \in DOMAIN view.d
    /\ view.d[key_name(view.parent.name)] # view.root_key
    /\ StoreDoc(view.parent, coll[view.parent], view.root_key) # None

\* --------------------------------------------------------------- C10

\* What C10 asks of a single step.
C10_Step ==
    \A h \in Tables, k \in Keys :
        (IsCall("set", h, k) /\ last'.status = "ok" /\ StoreDoc(h, coll[h], k) # None)
        => \A data \in SetData(h.name) : \A ack \in Acks(h, k, data) :
              SetItem(h, k, data, ack)
              => LET kn == key_name(h.name)
                     id == StoreDoc(h, coll[h], k)["_id"]
                     new == StoreDoc(h, coll'[h], k)
                     yielded == {MongoTable_iteritems(h.name, d).value : d \in coll'[h]}
                     shown == {p.t[2].d : p \in {q \in yielded : q.t[1] = PyScalar(k)}}
                 IN  IF is_multi(h.name)
                     THEN /\ new = dict_set(dict_set(data.d, kn, k), "_id", id)
                          /\ GetNext(h, k).value = PyDict(new)
                          /\ shown = {dict_del(data.d, kn)}
                     ELSE /\ new = dict_set(dict_set(dict_set(<<>>, "val", data.s), kn, k), "_id", id)
                          /\ GetNext(h, k).value = PyScalar(data.s)
                          /\ shown = {dict_set(<<>>, "val", data.s)}

\* C10 (full overwrite): after set(k, r) on a key that has a document, the
\* document for k is r plus the key field plus the old _id and nothing else
\* (single-value: {_id, key field, val}); get(k) returns it and iteritems
\* shows for k exactly the pair (k, r without the key field).
C10_FullOverwrite == [][C10_Step]_vars

\* A set has just dropped a field: the record the caller had fetched has an
\* email, the document now stored under the same _id has none.
C10_Witness ==
    /\ last.op = "set" /\ last.status = "ok"
    /\ view # None /\ view.parent = last.h /\ view.root_key = last.key
    /\ "email" \in DOMAIN view.d
    /\ StoreDoc(last.h, coll[last.h], last.key) # None
    /\ "_id" \in DOMAIN view.d
    /\ StoreDoc(last.h, coll[last.h], last.key)["_id"] = view.d["_id"]
    /\ "email" \notin DOMAIN StoreDoc(last.h, coll[last.h], last.key)

\* --------------------------------------------------------------- C11

\* C11 as claimed (cache namespace exclusivity): two cache key computations
\* of one facade give the same cache key only for the same table and the
\* same key.
C11_Exclusive ==
    (last.op = "key" /\ last.before # None /\ last.before.value = last.value)
    => (last.before.name = last.name /\ last.before.key = last.key)

\* --------------------------------------------------------------- C12

\* The call made a cache write: a _MC.set or a _MC.delete.
CacheWrites(calls) == {i \in 1..Len(calls) : calls[i][1] \in {"set", "delete"}}

\* C12 as claimed: a multi-value get(k) writes the cache exactly when it
\* fetched the record from the store after a cache miss; a get(k) served
\* from the cache makes no cache write.
C12_StorePathOnly ==
    [][\A h \in Tables, k \in Keys :
          (is_multi(h.name) /\ IsCall("get", h, k))
          => (CacheWrites(last'.calls) # {}
                <=> (mc_cache /\ last'.status = "ok" /\ ~last'.hit))]_vars

\* What the amended C12 asks of a single step.
C12_Step ==
    \A h \in Tables, k \in Keys :
        (is_multi(h.name) /\ IsCall("get", h, k))
        => LET ck == CacheKey(h, k) IN
           /\ coll' = coll
           /\ last'.calls =
                 IF ~mc_cache THEN <<>>
                 ELSE IF last'.status = "ok" THEN << <<"get", ck>>, <<"set", ck>> >>
                 ELSE << <<"get", ck>> >>
           /\ \A ck2 \in CacheKeys \ {ck} : memcached'[ck2] = memcached[ck2]
           /\ (mc_cache /\ last'.status = "ok") => memcached'[ck] = last'.value.d
           /\ (last'.hit \/ last'.status # "ok") => memcached' = memcached
           /\ last'.hit => (mc_cache /\ memcached[ck] # None)

\* C12 as amended: with the cache enabled a multi-value get(k) that returns
\* a record always ends with a cache set of that record under k, whether
\* the record came from the store or from the cache (then the same entry is
\* written again); a get(k) that raises KeyError, or runs with the cache
\* disabled, makes no cache write; no other entry and no document changes.
C12_GetSetsCache == [][C12_Step]_vars

\* A multi-value get(k) answered from the cache that has set the entry
\* again.
C12_Witness ==
    /\ last.op = "get" /\ is_multi(last.h.name) /\ last.hit
    /\ last.calls = << <<"get", CacheKey(last.h, last.key)>>,
                       <<"set", CacheKey(last.h, last.key)>> >>

\* --------------------------------------------------------------- C13

\* C13 as claimed (cache coherence under concurrency): with callers
\* interleaved at the single store and cache calls, whenever no call is in
\* progress the cache entry of k is absent or is the document the store
\* holds for k; so a get(k) made then returns the stored record and a
\* contains(k) is false for a key that has been removed.
C13_Quiescent ==
    (\A t \in Callers : running[t] = None)
    => \A h \in Tables, k \in Keys :
          /\ \/ memcached[CacheKey(h, k)] = None
             \/ memcached[CacheKey(h, k)] = StoreDoc(h, coll[h], k)
          /\ StoreDoc(h, coll[h], k) = None => ~Has(h, k)
          /\ StoreDoc(h, coll[h], k) # None
                => Get(h, k).value = IF is_multi(h.name)
                                     THEN PyDict(StoreDoc(h, coll[h], k))
                                     ELSE PyScalar(StoreDoc(h, coll[h], k)["val"])

\* --------------------------------------------------------------- C14

\* C14 (sequential cache coherence): in every state between two calls, with
\* the cache enabled, a cache entry under a table's prefix is the full
\* document the store holds for that key; a key with no document in the
\* store has no cache entry.
C14_Coherent ==
    mc_cache
    => \A h \in Tables, k \in Keys :
          memcached[CacheKey(h, k)] # None
          => /\ StoreDoc(h, coll[h], k) # None
             /\ memcached[CacheKey(h, k)] = StoreDoc(h, coll[h], k)

\* The cache holds the current document of a key whose record has been
\* rewritten since the caller fetched it: the entry differs from the view
\* the caller still holds, and a second key is cached as well.
C14_Witness ==
    /\ mc_cache /\ view # None
    /\ memcached[CacheKey(view.parent, view.root_key)] # None
    /\ memcached[CacheKey(view.parent, view.root_key)] # view.d
    /\ \A k \in Keys : memcached[CacheKey(view.parent, k)] # None

\* --------------------------------------------------------------- C15

\* A memcache server that holds no entry.  On it every _MC.get returns None,
\* which is the value r has before find_one when the cache is disabled: a
\* call made on NoEntries returns, raises and writes to the store what the
\* same call does with the cache disabled.
NoEntries == [ck \in CacheKeys |-> None]

\* What C15 asks of a single step.
C15_Step ==
    /\ ~mc_cache => (last'.calls = <<>> /\ memcached' = NoEntries)
    /\ last'.op \in {"len", "iter", "iteritems", "expire"} => coll' = coll
    /\ \A h \in Tables, k \in Keys :
          /\ IsCall("get", h, k)
                => LET plain == getitem(h.name, coll[h], NoEntries, k) IN
                   /\ last'.status = plain.status /\ last'.value = plain.value
                   /\ coll' = coll
          /\ IsCall("contains", h, k)
                => LET plain == MongoTable_contains(h.name, coll[h], NoEntries, k) IN
                   /\ last'.status = plain.status /\ last'.value = plain.value
                   /\ coll' = coll
          /\ IsCall("pop", h, k)
                => LET plain == MongoTable_pop(h.name, coll[h], NoEntries, k) IN
                   /\ last'.status = plain.status /\ last'.value = plain.value
                   /\ coll' = [coll EXCEPT ![h] = plain.c]
          /\ IsCall("set", h, k)
                => \A data \in SetData(h.name) : \A ack \in Acks(h, k, data) :
                      SetItem(h, k, data, ack)
                      => LET plain == setitem(h.name, coll[h], NoEntries, k, data,
                                              next_oid, ack)
                         IN  /\ last'.status = plain.status
                             /\ coll' = [coll EXCEPT ![h] = plain.c]
          /\ IsCall("view_set", h, k)
                => \A f \in Fields \cup {key_name(h.name)} :
                      \A v \in FieldValues(h.name, f), ack \in BOOLEAN :
                         ViewSetItem(f, v, ack)
                         => LET plain == setitem(h.name, coll[h], NoEntries, k,
                                                 PyDict(dict_set(view.d, f, v)),
                                                 next_oid, ack)
                            IN  /\ last'.status = plain.status
                                /\ coll' = [coll EXCEPT ![h] = plain.c]

\* C15 (cache transparency): every call returns or raises, and leaves in
\* the store, what the same call on the same store does without any cache
\* entry, whatever entries the cache holds and whichever of them have
\* expired; len, iteration and expiry leave the store as it is; with the
\* cache disabled no call reaches memcache.  Two runs of one call sequence
\* that start from the same store therefore agree call by call.
C15_Transparent == [][C15_Step]_vars

\* contains(k) has just been answered from the cache for a record that was
\* rewritten after the caller fetched it.
C15_Witness ==
    /\ mc_cache /\ last.op = "contains" /\ last.hit /\ last.value.b
    /\ view # None /\ view.parent = last.h /\ view.root_key = last.key
    /\ StoreDoc(last.h, coll[last.h], last.key) # view.d

\* --------------------------------------------------------------- C17

\* The view's key field, if it has one, is the key the view is bound to.
KeyCheckPasses(d, h, k) == key_name(h.name) \in DOMAIN d => d[key_name(h.name)] = k

\* The document doc is the view's contents d (a view whose _id was removed
\* is stored under the _id the store has or gives).
StoredAs(doc, d) ==
    /\ doc # None
    /\ IF "_id" \in DOMAIN d THEN doc = d ELSE dict_del(doc, "_id") = d

\* C17 as claimed (view write-back): after view[field] = v on a view bound
\* to key k, with a value that passes the key check, the view holds v for
\* the field and the document stored for k is the view's complete contents,
\* whatever the store held for k before: a record changed by a later set is
\* replaced, a removed record is created again.
C17_WholeView ==
    [][\A h \in Tables, k \in Keys :
          IsCall("view_set", h, k)
          => \A f \in Fields \cup {key_name(h.name)} :
                \A v \in FieldValues(h.name, f), ack \in BOOLEAN :
                   (/\ ViewSetItem(f, v, ack)
                    /\ KeyCheckPasses(dict_set(view.d, f, v), h, k))
                   => /\ view'.d = dict_set(dict_set(view.d, f, v), key_name(h.name), k)
                      /\ StoredAs(StoreDoc(h, coll'[h], k), view'.d)]_vars

\* --------------------------------------------------------------- C18

\* The values a generator yielded, as a set.
Yielded(value) == {value.l[i] : i \in 1..Len(value.l)}

\* The documents of a cursor result, as a set.
Scanned(r) == {r[i] : i \in 1..Len(r)}

\* A step of len(table), iter(table), table.iteritems() or next(it).
IsEnumStep ==
    \/ last'.op = "len" /\ last' # last
    \/ running' # running

\* What len and the generators do to store and cache: no cache call, and
\* both are left as they are; len returns the number of documents.
C18_Frame ==
    IsEnumStep
    => LET g == running'[Enumerator]
       IN  /\ coll' = coll
           /\ memcached' = memcached
           /\ last' # last => last'.calls = <<>>
           /\ g # None => g.calls = <<>>
           /\ \A h \in Tables :
                 (last'.op = "len" /\ last'.h = h /\ last' # last)
                 => last' = Call("len", h, "", MongoTable_len(coll[h]))

\* The element the generator f yields for the document d.
Element(f, d) ==
    IF f.op = "iter" THEN MongoTable_iter(f.h.name, d).value
    ELSE MongoTable_iteritems(f.h.name, d).value

\* Each call starts a new scan of the store's current contents.  A call of
\* iter or iteritems leaves the caller with a generator that has yielded
\* nothing and whose cursor holds no document and has been sent none,
\* whatever an earlier generator had reached.  The first next() of a
\* generator yields the element of a document the collection holds at that
\* moment, and ends the enumeration at once only if the collection is
\* empty.  Every later element is that of a document from the cursor's
\* batch or of one the collection holds when it is yielded.
C18_NewScan ==
    LET f == running[Enumerator]
        g == running'[Enumerator]
    IN  /\ (running' # running /\ g # None /\ g.out = <<>>)
              => /\ g.pc = "start" /\ g.r = <<>> /\ g.seen = {} /\ g.open
                 /\ last' = last
        /\ (running' # running /\ f # None /\ g # None /\ g.out # <<>>)
              => /\ g.op = f.op /\ g.h = f.h
                 /\ \E d \in (IF f.pc = "start" THEN {} ELSE Scanned(f.r)) \cup coll[f.h] :
                       g.out = Append(f.out, Element(f, d))
        /\ (running' # running /\ f # None /\ g = None)
              => /\ last'.op = f.op /\ last'.h = f.h /\ last'.status = "ok"
                 /\ last'.value = PyList(f.out)
                 /\ f.pc = "start" => (coll[f.h] = {} /\ f.out = <<>>)

\* C18: len, iteration over the keys and iteration over the items make no
\* memcache call and leave the store and the cache as they are, and each
\* call of iter or iteritems starts a new scan of the store's current
\* contents.
C18_BypassCache == [][C18_Frame /\ C18_NewScan]_vars

\* A second scan is under way in batches: the caller's generator has
\* yielded one of the two records the table holds, its cursor holds no
\* further document and is still open, the last call that returned was an
\* enumeration that ended, and the cache holds an entry of the table.
C18_Witness ==
    /\ mc_cache /\ running[Enumerator] # None
    /\ running[Enumerator].pc = "yield" /\ Len(running[Enumerator].out) = 1
    /\ running[Enumerator].r = <<>> /\ running[Enumerator].open
    /\ Cardinality(coll[running[Enumerator].h]) = 2
    /\ last.op \in {"iter", "iteritems"} /\ last.h = running[Enumerator].h
    /\ \E k \in Keys : memcached[CacheKey(running[Enumerator].h, k)] # None

\* --------------------------------------------------------------- C19

\* list(iter(table)) and list(table.iteritems()) with no other call in
\* between, for the cursor result r.
list_iter(name, r) == [i \in 1..Len(r) |-> MongoTable_iter(name, r[i])]
list_iteritems(name, r) == [i \in 1..Len(r) |-> MongoTable_iteritems(name, r[i])]

\* C19 (enumeration agrees with point access): in every state, for every
\* order a scan of that state may take, no element raises, len(table) is
\* the number of keys iteration yields; iteritems yields for each of these
\* keys, at the same position, one pair of the key and its document without
\* key field and _id, and no key twice; and a key is yielded exactly if
\* contains(k) is true, which is exactly if get(k) does not raise.
C19_Enumeration ==
    \A h \in Tables : \A r \in find(coll[h]) :
        LET kn == key_name(h.name)
            n == MongoTable_len(coll[h]).value.n
            keys == list_iter(h.name, r)
            items == list_iteritems(h.name, r)
        IN  /\ n = Len(keys)
            /\ Len(items) = Len(keys)
            /\ \A i \in 1..Len(keys) :
                  /\ keys[i].status = "ok" /\ items[i].status = "ok"
                  /\ items[i].value.t[1] = keys[i].value
                  /\ items[i].value.t[2]
                        = PyDict(dict_del(dict_del(StoreDoc(h, coll[h], keys[i].value.s), kn), "_id"))
                  /\ \A j \in 1..Len(keys) : keys[j] = keys[i] => j = i
            /\ \A k \in Keys :
                  /\ (\E i \in 1..Len(keys) : keys[i].value = PyScalar(k)) <=> Has(h, k)
                  /\ Has(h, k) <=> Get(h, k).status = "ok"

\* The items of two records have just been enumerated, one of them with an
\* email field, the enumeration is what the table holds now, and contains()
\* of one of the keys is answered from the cache.
C19_Witness ==
    /\ last.op = "iteritems" /\ Len(last.value.l) = 2
    /\ \E r \in find(coll[last.h]) :
          last.value.l = [i \in 1..Len(r) |-> list_iteritems(last.h.name, r)[i].value]
    /\ \E i \in 1..2 : "email" \in DOMAIN last.value.l[i].t[2].d
    /\ \E k \in Keys : MongoTable_contains(last.h.name, coll[last.h], memcached, k).hit

\* --------------------------------------------------------------- C16

\* C16 as claimed (isolation between facades): with two facades over
\* different databases and the cache enabled, a get(k) on a table of one
\* facade returns the record that facade's own database holds for k, and a
\* contains(k) is true only for a key its own database holds; neither
\* returns or reports what was written only through the other facade.
C16_Isolation ==
    [][\A h \in Tables, k \in Keys :
          /\ (IsCall("get", h, k) /\ last'.status = "ok")
                => /\ StoreDoc(h, coll[h], k) # None
                   /\ last'.value = IF is_multi(h.name)
                                     THEN PyDict(StoreDoc(h, coll[h], k))
                                     ELSE PyScalar(StoreDoc(h, coll[h], k)["val"])
          /\ (IsCall("contains", h, k) /\ last'.value.b)
                => StoreDoc(h, coll[h], k) # None]_vars

\* --------------------------------------------------------------- C20

\* A host or port argument that is given: not None, not empty, not 0.
Supplied(v) == v \notin {PyNone, PyScalar(""), PyInt(0)}

\* What C20 asks of a single step.
C20_Step ==
    /\ last'.op \in {"connect", "backend"}
          => IF Supplied(last'.host) /\ Supplied(last'.port)
             THEN /\ MC'.host = last'.host /\ MC'.port = last'.port
                  /\ MC'.decay = last'.decay
                  /\ MC'.cache = [servers |->
                                    <<last'.host.s \o ":" \o ToString(last'.port.n)>>]
                  /\ mc_cache'
             ELSE MC' = MC /\ mc_cache' = mc_cache
    /\ mc_cache => mc_cache'
    /\ ~mc_cache => MC = [host |-> PyNone, port |-> PyNone,
                          decay |-> PyInt(DefaultDecay), cache |-> None]
    /\ mc_cache' <=> MC'.cache # None

\* C20 (configuring the cache): a connect, made directly or by the
\* constructor of MongoDBBackend, that lacks the host or the port (None,
\* or the empty and zero values Python counts as false) changes no field
\* of _MC and not whether the cache is enabled; one that has both sets
\* host, port, decay and the client's endpoint to its arguments and enables
\* the cache.  The cache is never disabled again, and while it is disabled
\* _MC has the fields Memcache() gave it; so the configuration is that of
\* the last call with both host and port, and the cache is enabled exactly
\* if there was one.
C20_Configuration == [][C20_Step]_vars

\* A connect without a port has just been made on a cache that an earlier
\* call had connected to another host: that configuration is still there.
C20_Witness ==
    /\ last.op = "connect" /\ last.host # PyNone /\ last.port = PyNone
    /\ mc_cache /\ MC.host # last.host /\ MC.decay # last.decay

====
